---- MODULE Spec2Model ----
(***************************************************************************)
(* VLAN leak detection of VLAN_visualization.py: load_topology builds the  *)
(* switch_connections index from the links of the topology, and            *)
(* detect_vlan_leaks_and_identify_devices classifies every MAC-table       *)
(* observation as an inter-switch sighting or as a device location; main  *)
(* runs them between parse_mac_tables and build_network_graph.  The inline *)
(* detection loop of new_test.py and the graph-based detection of          *)
(* vlan_visualizer.py are modelled next to them.                           *)
(***************************************************************************)
EXTENDS Integers, Sequences, FiniteSets, TLC

VARIABLES pc, topology_file, links, switch_connections, mac_tables, leaking_switches,
          device_locations, first_run, mac_dir, declared, stages, G, figure_shown,
          topology, switch_mac_tables, network_graph, vlan_leaks

\* the names of the script vlan_visualizer.py
visualizerVars == <<topology, switch_mac_tables, network_graph, vlan_leaks>>

\* what the load-and-detect runs never touch
others == <<first_run, mac_dir, declared, stages, G, figure_shown, visualizerVars>>

vars == <<pc, topology_file, links, switch_connections, mac_tables, leaking_switches,
          device_locations, others>>

(***************************************************************************)
(* Bounds of the explored inputs.                                          *)
(***************************************************************************)
\* longest 'links' list of a topology
MaxLinks == 2
\* most observations (MAC-table lines) over all MACs together
MaxObs == 3
\* most lines over all files of the MAC-table directory
MaxLines == 2

(***************************************************************************)
(* Python values.                                                          *)
(***************************************************************************)
\* a str is a sequence of characters
Digits == <<"0", "1", "2", "3", "4", "5", "6", "7", "8", "9">>

IsDigit(c) == \E i \in 1..Len(Digits) : Digits[i] = c

DigitValue(c) == (CHOOSE i \in 1..Len(Digits) : Digits[i] = c) - 1

\* int(s) of a str s succeeds: s is a non-empty run of decimal digits
\* (the tokens explored hold no sign, blank or underscore)
StrIsInt(s) == Len(s) > 0 /\ \A i \in 1..Len(s) : IsDigit(s[i])

RECURSIVE StrToInt(_)
\* int(s) of a str s of decimal digits
StrToInt(s) ==
    IF Len(s) = 0 THEN 0
    ELSE 10 * StrToInt(SubSeq(s, 1, Len(s) - 1)) + DigitValue(s[Len(s)])

\* the values a YAML scalar gives a port: an int, a str, or None
IntV(n) == [t |-> "int", n |-> n, s |-> <<>>]
StrV(s) == [t |-> "str", n |-> 0, s |-> s]
NoneV == [t |-> "none", n |-> 0, s |-> <<>>]

\* the exception int(v) raises, "none" when it returns
IntRaises(v) ==
    IF v.t = "int" THEN "none"
    ELSE IF v.t = "none" THEN "TypeError"
    ELSE IF StrIsInt(v.s) THEN "none" ELSE "ValueError"

\* the value int(v) returns
IntOf(v) == IF v.t = "int" THEN v.n ELSE StrToInt(v.s)

\* a dict as a function; d[k] = v
EmptyDict == <<>>

DictSet(d, k, v) == [x \in DOMAIN d \cup {k} |-> IF x = k THEN v ELSE d[x]]

(***************************************************************************)
(* load_topology: the loop over topology_data['links'].                    *)
(***************************************************************************)
\* the exception the try body raises for one link before it assigns anything
LinkRaises(link) ==
    IF "source" \notin DOMAIN link THEN "KeyError"
    ELSE IF "destination" \notin DOMAIN link THEN "KeyError"
    ELSE IF "source_port" \notin DOMAIN link THEN "KeyError"
    ELSE IF IntRaises(link["source_port"]) # "none" THEN IntRaises(link["source_port"])
    ELSE IF "destination_port" \notin DOMAIN link THEN "KeyError"
    ELSE IntRaises(link["destination_port"])

\* the assignment of line 53 forgotten: the link is indexed from its source only
InsertLink_OneWay(conn, link) ==
    DictSet(conn, <<link["source"], IntOf(link["source_port"])>>,
                  <<link["destination"], IntOf(link["destination_port"])>>)

\* both assignments of one link, in the order of the code
InsertLink(conn, link) ==
    LET source_switch == link["source"]
        dest_switch == link["destination"]
        source_port == IntOf(link["source_port"])
        dest_port == IntOf(link["destination_port"])
        first == DictSet(conn, <<source_switch, source_port>>, <<dest_switch, dest_port>>)
    IN  DictSet(first, <<dest_switch, dest_port>>, <<source_switch, source_port>>)

RECURSIVE LoadLinks(_, _, _)
\* the for loop from link i on; except (KeyError, ValueError) skips the link,
\* any other exception leaves the function
LoadLinks(ls, i, conn) ==
    IF i > Len(ls) THEN [raised |-> "none", switch_connections |-> conn]
    ELSE LET e == LinkRaises(ls[i])
         IN  IF e = "none" THEN LoadLinks(ls, i + 1, InsertLink(conn, ls[i]))
             ELSE IF e \in {"KeyError", "ValueError"} THEN LoadLinks(ls, i + 1, conn)
             ELSE [raised |-> e, switch_connections |-> conn]

\* what open() and yaml.safe_load() make of the topology file: the file is
\* missing, it does not parse, it parses to nothing, or it holds a mapping
TopologyFiles == {"missing", "unparseable", "empty", "ok"}

\* load_topology: (None, {}) without a usable file, else the topology and the
\* index of its links; raised is the exception that leaves the function
load_topology(file, ls) ==
    IF file # "ok"
    THEN [raised |-> "none", topology |-> "None", switch_connections |-> EmptyDict]
    ELSE LET r == LoadLinks(ls, 1, EmptyDict)
         IN  [raised |-> r.raised, topology |-> "data",
              switch_connections |-> r.switch_connections]

(***************************************************************************)
(* detect_vlan_leaks_and_identify_devices.                                 *)
(***************************************************************************)
\* the wrong field of the tuple compared: loc[1], the port, for loc[2], the VLAN
AllSameVlan_WrongField(locations) ==
    LET first_port == locations[1][2]
    IN  \A i \in 1..Len(locations) : locations[i][2] = first_port

\* all(loc[2] == first_vlan for loc in locations)
AllSameVlan(locations) ==
    LET first_vlan == locations[1][3]
    IN  \A i \in 1..Len(locations) : locations[i][3] = first_vlan

\* connection_key in switch_connections, for a port that int() accepts
IsInterSwitch(switch_name, port_str, conn) ==
    <<switch_name, StrToInt(port_str)>> \in DOMAIN conn

\* the membership test of line 147 inverted: trunk sightings kept, others dropped
SameVlanStep_KeepTrunk(loc, conn, temp_locations) ==
    IF ~StrIsInt(loc[2]) THEN Append(temp_locations, loc)
    ELSE IF IsInterSwitch(loc[1], loc[2], conn) THEN Append(temp_locations, loc)
    ELSE temp_locations

\* one pass of the loop of lines 138-151 (all locations share one VLAN):
\* the list temp_locations after the location loc
SameVlanStep(loc, conn, temp_locations) ==
    IF ~StrIsInt(loc[2]) THEN Append(temp_locations, loc)
    ELSE IF IsInterSwitch(loc[1], loc[2], conn) THEN temp_locations
    ELSE Append(temp_locations, loc)

\* leaking_switches.add of line 167 forgotten
MixedVlanStep_NoMark(loc, conn, temp_locations, leaking) ==
    IF ~StrIsInt(loc[2])
    THEN [temp_locations |-> Append(temp_locations, loc), leaking |-> leaking]
    ELSE IF IsInterSwitch(loc[1], loc[2], conn)
    THEN [temp_locations |-> temp_locations, leaking |-> leaking]
    ELSE [temp_locations |-> Append(temp_locations, loc), leaking |-> leaking]

\* the append of line 162 forgotten: the except branch only continues
MixedVlanStep_NonNumericDropped(loc, conn, temp_locations, leaking) ==
    IF ~StrIsInt(loc[2])
    THEN [temp_locations |-> temp_locations, leaking |-> leaking]
    ELSE IF IsInterSwitch(loc[1], loc[2], conn)
    THEN [temp_locations |-> temp_locations, leaking |-> leaking \cup {loc[1]}]
    ELSE [temp_locations |-> Append(temp_locations, loc), leaking |-> leaking]

\* one pass of the loop of lines 155-171 (the VLANs differ): temp_locations
\* and leaking_switches after the location loc
MixedVlanStep(loc, conn, temp_locations, leaking) ==
    IF ~StrIsInt(loc[2])
    THEN [temp_locations |-> Append(temp_locations, loc), leaking |-> leaking]
    ELSE IF IsInterSwitch(loc[1], loc[2], conn)
    THEN [temp_locations |-> temp_locations, leaking |-> leaking \cup {loc[1]}]
    ELSE [temp_locations |-> Append(temp_locations, loc), leaking |-> leaking]

RECURSIVE SameVlanLoop(_, _, _, _)
SameVlanLoop(locations, i, conn, temp_locations) ==
    IF i > Len(locations) THEN temp_locations
    ELSE SameVlanLoop(locations, i + 1, conn, SameVlanStep(locations[i], conn, temp_locations))

RECURSIVE MixedVlanLoop(_, _, _, _, _)
MixedVlanLoop(locations, i, conn, temp_locations, leaking) ==
    IF i > Len(locations) THEN [temp_locations |-> temp_locations, leaking |-> leaking]
    ELSE LET r == MixedVlanStep(locations[i], conn, temp_locations, leaking)
         IN  MixedVlanLoop(locations, i + 1, conn, r.temp_locations, r.leaking)

\* leaking_switches = set() of line 114 placed inside the loop: each MAC
\* starts from an empty set
ProcessMac_ForgetsMarks(locations, conn, leaking) ==
    IF Len(locations) = 1
    THEN [processed |-> locations, leaking |-> {}]
    ELSE IF AllSameVlan(locations)
    THEN [processed |-> SameVlanLoop(locations, 1, conn, <<>>), leaking |-> {}]
    ELSE LET r == MixedVlanLoop(locations, 1, conn, <<>>, {})
         IN  [processed |-> r.temp_locations, leaking |-> r.leaking]

\* the branch of line 125 left out: a single location is trunk-checked too
ProcessMac_SingleChecked(locations, conn, leaking) ==
    IF AllSameVlan(locations)
    THEN [processed |-> SameVlanLoop(locations, 1, conn, <<>>), leaking |-> leaking]
    ELSE LET r == MixedVlanLoop(locations, 1, conn, <<>>, leaking)
         IN  [processed |-> r.temp_locations, leaking |-> r.leaking]

\* lines 125-172: processed_locations_for_mac and leaking_switches after one
\* MAC with at least one location
ProcessMac(locations, conn, leaking) ==
    IF Len(locations) = 1
    THEN [processed |-> locations, leaking |-> leaking]
    ELSE IF AllSameVlan(locations)
    THEN [processed |-> SameVlanLoop(locations, 1, conn, <<>>), leaking |-> leaking]
    ELSE LET r == MixedVlanLoop(locations, 1, conn, <<>>, leaking)
         IN  [processed |-> r.temp_locations, leaking |-> r.leaking]

\* the test of line 174 left out: the defaultdict gets an entry for every MAC
StoreLocations_Always(dl, mac, processed) ==
    DictSet(dl, mac, (IF mac \in DOMAIN dl THEN dl[mac] ELSE <<>>) \o processed)

\* lines 174-180: device_locations[mac].extend(processed) on a
\* defaultdict(list), only when something was retained
StoreLocations(dl, mac, processed) ==
    IF Len(processed) > 0
    THEN DictSet(dl, mac, (IF mac \in DOMAIN dl THEN dl[mac] ELSE <<>>) \o processed)
    ELSE dl

RECURSIVE DetectFrom_TouchesEmpty(_, _, _, _, _)
\* the continue of line 123 placed after a read of device_locations[mac]: the
\* defaultdict gets an empty list for a MAC without locations
DetectFrom_TouchesEmpty(tables, i, conn, leaking, dl) ==
    IF i > Len(tables) THEN [leaking_switches |-> leaking, device_locations |-> dl]
    ELSE LET mac == tables[i].mac
             locations == tables[i].locations
         IN  IF Len(locations) = 0
             THEN DetectFrom_TouchesEmpty(tables, i + 1, conn, leaking,
                                          StoreLocations_Always(dl, mac, <<>>))
             ELSE LET r == ProcessMac(locations, conn, leaking)
                  IN  DetectFrom_TouchesEmpty(tables, i + 1, conn, r.leaking,
                                              StoreLocations(dl, mac, r.processed))

RECURSIVE DetectFrom(_, _, _, _, _)
\* the loop over mac_tables.items() from entry i
DetectFrom(tables, i, conn, leaking, dl) ==
    IF i > Len(tables) THEN [leaking_switches |-> leaking, device_locations |-> dl]
    ELSE LET mac == tables[i].mac
             locations == tables[i].locations
         IN  IF Len(locations) = 0 THEN DetectFrom(tables, i + 1, conn, leaking, dl)
             ELSE LET r == ProcessMac(locations, conn, leaking)
                  IN  DetectFrom(tables, i + 1, conn, r.leaking,
                                 StoreLocations(dl, mac, r.processed))

detect_vlan_leaks_and_identify_devices(tables, conn) ==
    DetectFrom(tables, 1, conn, {}, EmptyDict)

\* line 178 as device_locations.setdefault(mac, processed).extend(processed):
\* for a single location processed is the caller's list, extended with itself
LocationsAfter_SetdefaultAlias(locations, processed) ==
    IF Len(locations) = 1 THEN locations \o processed ELSE locations

\* the caller's list of one MAC after lines 125-178: line 129 makes
\* processed_locations_for_mac the caller's list itself, the appends of lines
\* 144-171 go to temp_locations and the extend of line 178 to the list the
\* defaultdict made, so no statement writes to the caller's list
LocationsAfter(locations, processed) == locations

\* the caller's mac_tables after the call: the loop of line 117 only reads
\* items(), which adds no key to the defaultdict
TablesAfter(tables, conn) ==
    [i \in 1..Len(tables) |->
        LET locations == tables[i].locations
        IN  [mac |-> tables[i].mac,
             locations |-> IF Len(locations) = 0 THEN locations
                           ELSE LocationsAfter(locations,
                                               ProcessMac(locations, conn, {}).processed)]]

(***************************************************************************)
(* parse_mac_tables: the lines of the .txt files of the directory, in the  *)
(* order they are read, each with the switch its file is named after.  A   *)
(* line is an "entry" when it holds '(port:' and 'VLAN:', each followed by *)
(* a word; any other line is passed over.                                  *)
(***************************************************************************)
EntryLine(sw, m, p, v) == [kind |-> "entry", switch |-> sw, mac |-> m, port |-> p, vlan |-> v]

OtherLine == [kind |-> "other", switch |-> "A", mac |-> "m1", port |-> <<>>, vlan |-> ""]

\* line 96: mac_tables[mac_address].append((switch_name, port, vlan)) on a
\* defaultdict(list); a new key goes to the end of the dict
AppendObservation(tables, mac, obs) ==
    IF \E i \in 1..Len(tables) : tables[i].mac = mac
    THEN [i \in 1..Len(tables) |->
             IF tables[i].mac = mac
             THEN [mac |-> mac, locations |-> Append(tables[i].locations, obs)]
             ELSE tables[i]]
    ELSE Append(tables, [mac |-> mac, locations |-> <<obs>>])

RECURSIVE ParseLines(_, _, _)
\* lines 73-100: the loops over the files and their lines, from line i
ParseLines(lines, i, tables) ==
    IF i > Len(lines) THEN tables
    ELSE LET line == lines[i]
         IN  IF line.kind = "entry"
             THEN ParseLines(lines, i + 1,
                             AppendObservation(tables, line.mac,
                                               <<line.switch, line.port, line.vlan>>))
             ELSE ParseLines(lines, i + 1, tables)

\* lines 65-68 and 105-106: no directory, no observations
parse_mac_tables(dir) ==
    IF ~dir.isdir THEN <<>> ELSE ParseLines(dir.lines, 1, <<>>)

(***************************************************************************)
(* build_network_graph: a graph is its nodes, each with a type and a       *)
(* colour, and its undirected edges; labels and edge colours, which only   *)
(* the drawing uses, are left out.                                         *)
(***************************************************************************)
EmptyGraph == [nodes |-> EmptyDict, edges |-> {}]

has_node(graph, n) == n \in DOMAIN graph.nodes

add_node(graph, n, type, color) ==
    [graph EXCEPT !.nodes = DictSet(graph.nodes, n, [type |-> type, color |-> color])]

\* an edge brings the nodes it joins, without attributes, when they are missing
add_edge(graph, u, v) ==
    LET g1 == IF has_node(graph, u) THEN graph ELSE add_node(graph, u, "none", "none")
        g2 == IF has_node(g1, v) THEN g1 ELSE add_node(g1, v, "none", "none")
    IN  [g2 EXCEPT !.edges = g2.edges \cup {{u, v}}]

\* line 199
SwitchColor(switch_name, leaking) ==
    IF switch_name \in leaking THEN "red" ELSE "skyblue"

RECURSIVE AddSwitchNodes(_, _, _, _)
\* lines 194-200: a switch without a name ("" here) is skipped
AddSwitchNodes(graph, switches, i, leaking) ==
    IF i > Len(switches) THEN graph
    ELSE LET switch_name == switches[i]
         IN  IF switch_name = "" THEN AddSwitchNodes(graph, switches, i + 1, leaking)
             ELSE AddSwitchNodes(add_node(graph, switch_name, "switch",
                                          SwitchColor(switch_name, leaking)),
                                 switches, i + 1, leaking)

RECURSIVE AddLinkEdges(_, _, _)
\* lines 204-210: one edge for each pair of switches of switch_connections
AddLinkEdges(graph, keys, conn) ==
    IF keys = {} THEN graph
    ELSE LET key == CHOOSE k \in keys : TRUE
         IN  AddLinkEdges(add_edge(graph, key[1], conn[key][1]), keys \ {key}, conn)

RECURSIVE AddLocations_NoTrunkTest(_, _, _, _, _)
\* the test of lines 222-227 left out: every location is drawn
AddLocations_NoTrunkTest(graph, mac, locations, j, conn) ==
    IF j > Len(locations) THEN graph
    ELSE LET switch_name == locations[j][1]
             g1 == IF has_node(graph, mac) THEN graph
                   ELSE add_node(graph, mac, "device", "none")
             g2 == IF has_node(g1, switch_name) THEN add_edge(g1, switch_name, mac)
                   ELSE g1
         IN  AddLocations_NoTrunkTest(g2, mac, locations, j + 1, conn)

RECURSIVE AddLocations(_, _, _, _, _)
\* lines 217-245: the locations of one MAC from location j
AddLocations(graph, mac, locations, j, conn) ==
    IF j > Len(locations) THEN graph
    ELSE LET switch_name == locations[j][1]
             port_str == locations[j][2]
             is_on_trunk == /\ StrIsInt(port_str)
                            /\ <<switch_name, StrToInt(port_str)>> \in DOMAIN conn
             g1 == IF has_node(graph, mac) THEN graph
                   ELSE add_node(graph, mac, "device", "none")
             g2 == IF has_node(g1, switch_name) THEN add_edge(g1, switch_name, mac)
                   ELSE g1
         IN  IF is_on_trunk THEN AddLocations(graph, mac, locations, j + 1, conn)
             ELSE AddLocations(g2, mac, locations, j + 1, conn)

RECURSIVE AddDevices(_, _, _, _)
\* line 216: for mac, locations in device_locations.items()
AddDevices(graph, macs, dl, conn) ==
    IF macs = {} THEN graph
    ELSE LET mac == CHOOSE m \in macs : TRUE
         IN  AddDevices(AddLocations(graph, mac, dl[mac], 1, conn), macs \ {mac}, dl, conn)

\* topology_data is the loaded topology, never None or empty where main
\* calls this; switches is its 'switches' entry
build_network_graph(switches, conn, dl, leaking) ==
    IF ~switches.present THEN EmptyGraph
    ELSE AddDevices(AddLinkEdges(AddSwitchNodes(EmptyGraph, switches.list, 1, leaking),
                                 DOMAIN conn, conn),
                    DOMAIN dl, dl, conn)

(***************************************************************************)
(* vlan_visualizer.py: build_network_graph hangs the MACs of the switches' *)
(* tables on the graph of the links, detect_vlan_leaks reads the VLANs     *)
(* back from the nodes.  A node has the attributes type, mac and vlan,     *)
(* "none", "" and 0 where it has none.                                     *)
(***************************************************************************)
NoAttributes == [type |-> "none", mac |-> "", vlan |-> 0]

\* graph.add_edge: the nodes it joins are added, without attributes, when missing
VisAddEdge(graph, u, v) ==
    LET n1 == IF u \in DOMAIN graph.nodes THEN graph.nodes
              ELSE DictSet(graph.nodes, u, NoAttributes)
        n2 == IF v \in DOMAIN n1 THEN n1 ELSE DictSet(n1, v, NoAttributes)
    IN  [nodes |-> n2, edges |-> graph.edges \cup {{u, v}}]

\* graph.add_node(device_name, type='end_device', mac=mac, vlan=...): the
\* attributes of a node that is already there are overwritten
VisAddDevice(graph, mac, vlan) ==
    [graph EXCEPT !.nodes = DictSet(graph.nodes, mac,
                                    [type |-> "end_device", mac |-> mac, vlan |-> vlan])]

RECURSIVE VisAddLinks(_, _, _)
\* lines 69-75
VisAddLinks(graph, links_list, i) ==
    IF i > Len(links_list) THEN graph
    ELSE VisAddLinks(VisAddEdge(graph, links_list[i].src_switch, links_list[i].dst_switch),
                     links_list, i + 1)

RECURSIVE VisAddTable(_, _, _, _)
\* lines 81-84: the MACs of the table of one switch, from entry j
VisAddTable(graph, switch_name, table, j) ==
    IF j > Len(table) THEN graph
    ELSE LET device_name == table[j].mac
         IN  VisAddTable(VisAddEdge(VisAddDevice(graph, device_name, table[j].vlan),
                                    switch_name, device_name),
                         switch_name, table, j + 1)

RECURSIVE VisAddTables(_, _, _)
\* lines 78-84: a switch whose table is None is skipped
VisAddTables(graph, tables, i) ==
    IF i > Len(tables) THEN graph
    ELSE IF tables[i].none THEN VisAddTables(graph, tables, i + 1)
    ELSE VisAddTables(VisAddTable(graph, tables[i].switch, tables[i].table, 1),
                      tables, i + 1)

\* build_network_graph of vlan_visualizer.py, lines 56-86
vis_build_network_graph(links_list, tables) ==
    VisAddTables(VisAddLinks(EmptyGraph, links_list, 1), tables, 1)

\* lines 101-105: vlan_map[mac], the VLANs of the end-device nodes of a MAC
VlanMap(graph, mac) ==
    {graph.nodes[n].vlan : n \in {x \in DOMAIN graph.nodes :
                                     /\ graph.nodes[x].type = "end_device"
                                     /\ graph.nodes[x].mac = mac}}

\* lines 99-114: leaks[mac] = list(vlan_set) for the MACs with more than one
\* VLAN in vlan_map; the list, whose order a set does not fix, is given by
\* its elements
detect_vlan_leaks(graph) ==
    LET macs == {graph.nodes[n].mac : n \in {x \in DOMAIN graph.nodes :
                                                graph.nodes[x].type = "end_device"}}
    IN  [mac \in {m \in macs : Cardinality(VlanMap(graph, m)) > 1} |-> VlanMap(graph, mac)]

(***************************************************************************)
(* new_test.py, STEP 3: the same detection written inline, its results     *)
(* module-level names.                                                     *)
(***************************************************************************)
\* line 58 before its correction: only the first two VLANs are compared
NewTestAllSameVlan_FirstTwo(locations) == locations[2][3] = locations[1][3]

\* lines 56-58: first_vlan = locations[0][2]; all(loc[2] == first_vlan ...)
NewTestAllSameVlan(locations) ==
    \A i \in 1..Len(locations) : locations[i][3] = locations[1][3]

RECURSIVE NewTestSameVlanLoop(_, _, _, _)
\* lines 64-82: temp_locations after the locations from i on
NewTestSameVlanLoop(locations, i, switch_conns, temp_locations) ==
    IF i > Len(locations) THEN temp_locations
    ELSE LET switch_name == locations[i][1]
             port_str == locations[i][2]
         IN  IF ~StrIsInt(port_str)
             THEN NewTestSameVlanLoop(locations, i + 1, switch_conns,
                                      Append(temp_locations, locations[i]))
             ELSE IF <<switch_name, StrToInt(port_str)>> \in DOMAIN switch_conns
             THEN NewTestSameVlanLoop(locations, i + 1, switch_conns, temp_locations)
             ELSE NewTestSameVlanLoop(locations, i + 1, switch_conns,
                                      Append(temp_locations, locations[i]))

RECURSIVE NewTestMixedVlanLoop(_, _, _, _, _)
\* lines 89-110: temp_locations and leaking_switches after the locations from i on
NewTestMixedVlanLoop(locations, i, switch_conns, temp_locations, leaking) ==
    IF i > Len(locations) THEN [temp_locations |-> temp_locations, leaking |-> leaking]
    ELSE LET switch_name == locations[i][1]
             port_str == locations[i][2]
         IN  IF ~StrIsInt(port_str)
             THEN NewTestMixedVlanLoop(locations, i + 1, switch_conns,
                                       Append(temp_locations, locations[i]), leaking)
             ELSE IF <<switch_name, StrToInt(port_str)>> \in DOMAIN switch_conns
             THEN NewTestMixedVlanLoop(locations, i + 1, switch_conns, temp_locations,
                                       leaking \cup {switch_name})
             ELSE NewTestMixedVlanLoop(locations, i + 1, switch_conns,
                                       Append(temp_locations, locations[i]), leaking)

RECURSIVE NewTestLoop(_, _, _, _, _)
\* lines 42-125: for mac, locations in list(mac_tables.items()), from item i
NewTestLoop(tables, i, switch_conns, leaking, dl) ==
    IF i > Len(tables) THEN [leaking_switches |-> leaking, device_locations |-> dl]
    ELSE LET mac == tables[i].mac
             locations == tables[i].locations
             r == IF Len(locations) = 0
                  THEN [temp_locations |-> <<>>, leaking |-> leaking]
                  ELSE IF Len(locations) = 1
                  THEN [temp_locations |-> locations, leaking |-> leaking]
                  ELSE IF NewTestAllSameVlan(locations)
                  THEN [temp_locations |-> NewTestSameVlanLoop(locations, 1, switch_conns, <<>>),
                        leaking |-> leaking]
                  ELSE NewTestMixedVlanLoop(locations, 1, switch_conns, <<>>, leaking)
             processed_locations_for_mac == r.temp_locations
         IN  NewTestLoop(tables, i + 1, switch_conns, r.leaking,
                         IF Len(processed_locations_for_mac) > 0
                         THEN DictSet(dl, mac,
                                      (IF mac \in DOMAIN dl THEN dl[mac] ELSE <<>>)
                                          \o processed_locations_for_mac)
                         ELSE dl)

\* lines 40-125: leaking_switches and device_locations once the loop is over
new_test_detect(tables, switch_conns) == NewTestLoop(tables, 1, switch_conns, {}, EmptyDict)

(***************************************************************************)
(* Inputs.                                                                 *)
(***************************************************************************)
Switches == {"A", "C"}
LinkSwitches == {"A", "B", "C"}
Vlans == {"10", "20"}
Macs == {"m1", "m2"}
PortTokens == {<<"1">>, <<"P", "o", "1">>}
Observations == Switches \X PortTokens \X Vlans

Link(s, p, d, q) ==
    [source |-> s, source_port |-> p, destination |-> d, destination_port |-> q]

DropKey(link, k) == [x \in DOMAIN link \ {k} |-> link[x]]

LinkKeys == {"source", "destination", "source_port", "destination_port"}

GoodPorts == {IntV(1), StrV(<<"0", "2">>)}
BadPorts == {StrV(<<"P", "o", "1">>), NoneV}

\* a link joins two different switches
SwitchPairs == {sd \in LinkSwitches \X LinkSwitches : sd[1] # sd[2]}

WellFormedLinks ==
    {Link(sd[1], p, sd[2], q) : sd \in SwitchPairs, p \in GoodPorts, q \in GoodPorts}

MalformedLinks ==
    {DropKey(Link("A", IntV(1), "B", IntV(1)), k) : k \in LinkKeys}
    \cup {Link("A", p, "B", IntV(1)) : p \in BadPorts}
    \cup {Link("A", IntV(1), "B", q) : q \in BadPorts}

LinkDomain == WellFormedLinks \cup MalformedLinks

\* the topologies the detector is explored under
DetectTopologies ==
    { <<>>,
      <<Link("A", IntV(1), "C", IntV(1))>>,
      <<Link("A", StrV(<<"1">>), "B", IntV(1))>> }

Entry(m, l) == [mac |-> m, locations |-> l]

\* the lists of exactly k observations
ObsLists(k) == [1..k -> Observations]

MacPairs == {mm \in Macs \X Macs : mm[1] # mm[2]}

LenPairs(n) == {kk \in (0..n) \X (0..n) : kk[1] + kk[2] <= n}

\* mac_tables is a dict of at most n observations: a dict keeps its keys in
\* insertion order; a key may hold an empty list
IsMacTablesOf(tables, n) ==
    \/ tables = <<>>
    \/ \E k \in 0..n : \E m \in Macs, l \in ObsLists(k) : tables = <<Entry(m, l)>>
    \/ \E mm \in MacPairs, kk \in LenPairs(n) :
          \E l1 \in ObsLists(kk[1]), l2 \in ObsLists(kk[2]) :
             tables = <<Entry(mm[1], l1), Entry(mm[2], l2)>>

\* the lines a MAC-table file may hold
LineDomain ==
    {EntryLine(o[1], m, o[2], o[3]) : o \in Observations, m \in Macs} \cup {OtherLine}

\* the MAC-table directory: missing, or with at most n lines in its files
IsMacDirOf(dir, n) ==
    \/ dir = [isdir |-> FALSE, lines |-> <<>>]
    \/ \E k \in 0..n : \E ls \in [1..k -> LineDomain] : dir = [isdir |-> TRUE, lines |-> ls]

\* the 'switches' entry of a topology: missing, or a list of switches by
\* name, "" for a switch without one
DeclaredSwitches ==
    { [present |-> FALSE, list |-> <<>>],
      [present |-> TRUE, list |-> <<"A">>],
      [present |-> TRUE, list |-> <<"A", "", "C">>] }

\* the MAC table of one switch, as parse_mac_table returns it: a dict of at
\* most one entry for each MAC, VLAN and port integers
VisTables ==
    {<<>>}
    \cup {<<[mac |-> m, port |-> 1, vlan |-> v]>> : m \in Macs, v \in {10, 20}}
    \cup {<<[mac |-> "m1", port |-> 1, vlan |-> v], [mac |-> "m2", port |-> 2, vlan |-> w]>> :
             v \in {10, 20}, w \in {10, 20}}

\* switch_mac_tables[switch_name]: a table, or None for a file that is missing
VisSwitchTables(sw) ==
    {[switch |-> sw, none |-> TRUE, table |-> <<>>]}
    \cup {[switch |-> sw, none |-> FALSE, table |-> t] : t \in VisTables}

VisTopologies ==
    { <<>>,
      <<[src_switch |-> "SW1", dst_switch |-> "SW2", src_port |-> 24, dst_port |-> 24]>> }

(***************************************************************************)
(* The run: load the topology, then detect.                                *)
(***************************************************************************)
TypeOK ==
    /\ pc \in {"load", "detect", "done", "again", "stopped", "aborted",
              "main_load", "main_parse", "main_detect", "main_graph", "main_show",
              "main_returned", "main_raised", "vis_build", "vis_detect", "vis_done"}
    /\ topology_file \in TopologyFiles
    /\ leaking_switches \subseteq Switches

InitCommon ==
    /\ pc = "load"
    /\ switch_connections = EmptyDict
    /\ leaking_switches = {}
    /\ device_locations = EmptyDict
    /\ first_run = [leaking_switches |-> {}, device_locations |-> EmptyDict]
    /\ mac_dir = [isdir |-> FALSE, lines |-> <<>>]
    /\ declared = [present |-> FALSE, list |-> <<>>]
    /\ stages = <<>>
    /\ G = EmptyGraph
    /\ figure_shown = FALSE
    /\ topology = <<>>
    /\ switch_mac_tables = <<>>
    /\ network_graph = EmptyGraph
    /\ vlan_leaks = EmptyDict

\* any observations, under a few topologies
Init ==
    /\ InitCommon
    /\ topology_file = "ok"
    /\ links \in DetectTopologies
    /\ IsMacTablesOf(mac_tables, MaxObs)

\* any topology, no observations
InitLoad ==
    /\ InitCommon
    /\ topology_file \in TopologyFiles
    /\ IF topology_file = "ok"
       THEN \E k \in 0..MaxLinks : links \in [1..k -> LinkDomain]
       ELSE links = <<>>
    /\ mac_tables = <<>>

\* main, lines 328-330: an exception of load_topology ends the run, a
\* topology of None makes main return
LoadTopology ==
    /\ pc = "load"
    /\ LET r == load_topology(topology_file, links)
       IN  IF r.raised # "none"
           THEN /\ switch_connections' = switch_connections
                /\ pc' = "aborted"
           ELSE /\ switch_connections' = r.switch_connections
                /\ pc' = IF r.topology = "None" THEN "stopped" ELSE "detect"
    /\ UNCHANGED <<topology_file, links, mac_tables, leaking_switches, device_locations>>
    /\ UNCHANGED others

\* lines 114-115 as module-level statements, the way new_test.py has them
\* (lines 40-41): a call goes on from the results of the call before
DetectCall_SharedResults ==
    /\ LET r == DetectFrom(mac_tables, 1, switch_connections, leaking_switches,
                           device_locations)
       IN  /\ leaking_switches' = r.leaking_switches
           /\ device_locations' = r.device_locations
    /\ mac_tables' = TablesAfter(mac_tables, switch_connections)
    /\ UNCHANGED switch_connections

\* one call of detect_vlan_leaks_and_identify_devices on the caller's
\* mac_tables and switch_connections: what it returns and what it leaves of
\* its arguments
DetectCall ==
    /\ LET r == detect_vlan_leaks_and_identify_devices(mac_tables, switch_connections)
       IN  /\ leaking_switches' = r.leaking_switches
           /\ device_locations' = r.device_locations
    /\ mac_tables' = TablesAfter(mac_tables, switch_connections)
    /\ UNCHANGED switch_connections

\* main, line 338
Detect ==
    /\ pc = "detect"
    /\ DetectCall
    /\ pc' = "done"
    /\ UNCHANGED <<topology_file, links, others>>

\* a second call on the same arguments, the results of the first kept aside
Redetect ==
    /\ pc = "done"
    /\ first_run' = [leaking_switches |-> leaking_switches,
                     device_locations |-> device_locations]
    /\ DetectCall
    /\ pc' = "again"
    /\ UNCHANGED <<topology_file, links, mac_dir, declared, stages, G, figure_shown>>
    /\ UNCHANGED visualizerVars

Next == LoadTopology \/ Detect

NextTwice == LoadTopology \/ Detect \/ Redetect

Spec == Init /\ [][Next]_vars

\* detect called twice in a row
SpecTwice == Init /\ [][NextTwice]_vars

(***************************************************************************)
(* main: the five stages in turn.                                          *)
(***************************************************************************)
MainStages == <<"load_topology", "parse_mac_tables", "detect_vlan_leaks_and_identify_devices",
                "build_network_graph", "visualize_network">>

\* any topology file, a few topologies, any directory of at most MaxLines lines
InitMain ==
    /\ pc = "main_load"
    /\ topology_file \in TopologyFiles
    /\ IF topology_file = "ok"
       THEN links \in DetectTopologies /\ declared \in DeclaredSwitches
       ELSE links = <<>> /\ declared = [present |-> FALSE, list |-> <<>>]
    /\ IsMacDirOf(mac_dir, MaxLines)
    /\ switch_connections = EmptyDict
    /\ mac_tables = <<>>
    /\ leaking_switches = {}
    /\ device_locations = EmptyDict
    /\ first_run = [leaking_switches |-> {}, device_locations |-> EmptyDict]
    /\ stages = <<>>
    /\ G = EmptyGraph
    /\ figure_shown = FALSE
    /\ topology = <<>>
    /\ switch_mac_tables = <<>>
    /\ network_graph = EmptyGraph
    /\ vlan_leaks = EmptyDict

\* the return of line 330 left out: main goes on with a topology of None
MainLoadTopology_GoesOn ==
    /\ pc = "main_load"
    /\ stages' = Append(stages, "load_topology")
    /\ LET r == load_topology(topology_file, links)
       IN  IF r.raised # "none"
           THEN /\ switch_connections' = switch_connections
                /\ pc' = "main_raised"
           ELSE /\ switch_connections' = r.switch_connections
                /\ pc' = "main_parse"
    /\ UNCHANGED <<topology_file, links, mac_tables, leaking_switches, device_locations,
                   first_run, mac_dir, declared, G, figure_shown>>
    /\ UNCHANGED visualizerVars

\* lines 328-330: an exception of load_topology ends main, a topology of
\* None makes it return
MainLoadTopology ==
    /\ pc = "main_load"
    /\ stages' = Append(stages, "load_topology")
    /\ LET r == load_topology(topology_file, links)
       IN  IF r.raised # "none"
           THEN /\ switch_connections' = switch_connections
                /\ pc' = "main_raised"
           ELSE /\ switch_connections' = r.switch_connections
                /\ pc' = IF r.topology = "None" THEN "main_returned" ELSE "main_parse"
    /\ UNCHANGED <<topology_file, links, mac_tables, leaking_switches, device_locations,
                   first_run, mac_dir, declared, G, figure_shown>>
    /\ UNCHANGED visualizerVars

\* lines 333-335
MainParseMacTables ==
    /\ pc = "main_parse"
    /\ stages' = Append(stages, "parse_mac_tables")
    /\ mac_tables' = parse_mac_tables(mac_dir)
    /\ pc' = "main_detect"
    /\ UNCHANGED <<topology_file, links, switch_connections, leaking_switches,
                   device_locations, first_run, mac_dir, declared, G, figure_shown>>
    /\ UNCHANGED visualizerVars

\* line 338
MainDetect ==
    /\ pc = "main_detect"
    /\ stages' = Append(stages, "detect_vlan_leaks_and_identify_devices")
    /\ DetectCall
    /\ pc' = "main_graph"
    /\ UNCHANGED <<topology_file, links, first_run, mac_dir, declared, G, figure_shown>>
    /\ UNCHANGED visualizerVars

\* line 352
MainBuildGraph ==
    /\ pc = "main_graph"
    /\ stages' = Append(stages, "build_network_graph")
    /\ G' = build_network_graph(declared, switch_connections, device_locations,
                                leaking_switches)
    /\ pc' = "main_show"
    /\ UNCHANGED <<topology_file, links, switch_connections, mac_tables, leaking_switches,
                   device_locations, first_run, mac_dir, declared, figure_shown>>
    /\ UNCHANGED visualizerVars

\* line 355, visualize_network lines 252-254 and 318: a graph without nodes
\* is not drawn
MainVisualize ==
    /\ pc = "main_show"
    /\ stages' = Append(stages, "visualize_network")
    /\ figure_shown' = (DOMAIN G.nodes # {})
    /\ pc' = "main_returned"
    /\ UNCHANGED <<topology_file, links, switch_connections, mac_tables, leaking_switches,
                   device_locations, first_run, mac_dir, declared, G>>
    /\ UNCHANGED visualizerVars

NextMain ==
    MainLoadTopology \/ MainParseMacTables \/ MainDetect \/ MainBuildGraph \/ MainVisualize

SpecMain == InitMain /\ [][NextMain]_vars

SpecLoad == InitLoad /\ [][Next]_vars

(***************************************************************************)
(* What the properties speak of, stated on the inputs alone.               *)
(***************************************************************************)
\* detect has returned
Detected == pc = "done"

\* load_topology has returned
Loaded == pc \in {"detect", "done"}

Entries == {mac_tables[i] : i \in 1..Len(mac_tables)}

\* the observation sits on one end of a declared link
OnTrunk(loc) ==
    /\ StrIsInt(loc[2])
    /\ \E key \in DOMAIN switch_connections : key[1] = loc[1] /\ key[2] = StrToInt(loc[2])

VlansOf(locations) == {locations[i][3] : i \in 1..Len(locations)}

Retainable(loc) == ~OnTrunk(loc)

\* the observations of a dict entry that are not trunk sightings, in order
NonTrunk(locations) == SelectSeq(locations, Retainable)

\* the locations the result holds for a MAC, none when it has no entry
LocationsOf(mac) ==
    IF mac \in DOMAIN device_locations THEN device_locations[mac] ELSE <<>>

\* the observation mapping with the entry of one MAC left out
TablesWithout(mac) == SelectSeq(mac_tables, LAMBDA e : e.mac # mac)

\* what detect returns when the MAC was never observed
ResultWithout(mac) ==
    detect_vlan_leaks_and_identify_devices(TablesWithout(mac), switch_connections)

(***************************************************************************)
(* Leak marking.                                                           *)
(***************************************************************************)
\* the MAC of the entry is seen with differing VLANs, one sighting of it on
\* a trunk port of switch S
MarksLeak(e, S) ==
    /\ Len(e.locations) >= 2
    /\ Cardinality(VlansOf(e.locations)) > 1
    /\ \E i \in 1..Len(e.locations) : e.locations[i][1] = S /\ OnTrunk(e.locations[i])

\* the example of the claim: one MAC, seen on the trunk port A:1 in VLAN 10
\* and on a port of C that is no trunk port in VLAN 20
LeakExample ==
    /\ Len(mac_tables) = 1
    /\ mac_tables[1].locations = << <<"A", <<"1">>, "10">>, <<"C", <<"1">>, "20">> >>
    /\ <<"A", 1>> \in DOMAIN switch_connections
    /\ <<"C", 1>> \notin DOMAIN switch_connections

\* C1: after detect a switch is in leaking_switches exactly when some MAC with
\* two or more observations of differing VLANs has an observation on a trunk
\* port of that switch; in the example A is marked and C is not.
C1_LeakingIff ==
    Detected =>
        /\ \A S \in Switches : S \in leaking_switches <=> \E e \in Entries : MarksLeak(e, S)
        /\ leaking_switches \subseteq Switches
        /\ LeakExample => leaking_switches = {"A"}

C1_Witness == Detected /\ LeakExample /\ "A" \in leaking_switches /\ "C" \notin leaking_switches

(***************************************************************************)
(* Retained locations.                                                     *)
(***************************************************************************)
\* C2: for a MAC with two or more observations the result holds exactly its
\* observations that are not trunk sightings, in their order, whether or not
\* they span several VLANs and whether a discarded one marked a leak or not.
C2_RetainedExactly ==
    Detected =>
        \A e \in Entries :
            Len(e.locations) >= 2 =>
                /\ LocationsOf(e.mac) = NonTrunk(e.locations)
                /\ \A i \in 1..Len(LocationsOf(e.mac)) : ~OnTrunk(LocationsOf(e.mac)[i])

\* a trunk sighting discarded with a leak mark next to two retained
\* observations of different VLANs
C2_Witness ==
    /\ Detected
    /\ \E e \in Entries :
          /\ Len(e.locations) >= 3
          /\ \E i \in 1..Len(e.locations) :
                OnTrunk(e.locations[i]) /\ e.locations[i][1] \in leaking_switches
          /\ Len(LocationsOf(e.mac)) >= 2
          /\ Cardinality(VlansOf(LocationsOf(e.mac))) > 1

\* C3: a MAC with exactly one observation keeps it as its only location, also
\* on a trunk port, and marks no switch: the leaking switches are those of the
\* other MACs.
C3_SinglePassthrough ==
    Detected =>
        \A e \in Entries :
            Len(e.locations) = 1 =>
                /\ e.mac \in DOMAIN device_locations
                /\ device_locations[e.mac] = <<e.locations[1]>>
                /\ leaking_switches = ResultWithout(e.mac).leaking_switches
                /\ (Len(mac_tables) = 1 => leaking_switches = {})

\* a single observation on a trunk port, kept
C3_Witness ==
    /\ Detected
    /\ \E e \in Entries :
          /\ Len(e.locations) = 1
          /\ OnTrunk(e.locations[1])
          /\ LocationsOf(e.mac) = e.locations

\* C4: a MAC whose observations share one VLAN marks no switch, however many
\* of them sit on trunk ports; when every MAC is such, no switch is leaking.
C4_UniformVlanNoLeak ==
    Detected =>
        /\ \A e \in Entries :
              Cardinality(VlansOf(e.locations)) <= 1 =>
                  leaking_switches = ResultWithout(e.mac).leaking_switches
        /\ (\A e \in Entries : Cardinality(VlansOf(e.locations)) <= 1) => leaking_switches = {}

\* one MAC, one VLAN, two or more sightings, all on trunk ports
C4_Witness ==
    /\ Detected
    /\ leaking_switches = {}
    /\ \E e \in Entries :
          /\ Len(e.locations) >= 2
          /\ Cardinality(VlansOf(e.locations)) = 1
          /\ \A i \in 1..Len(e.locations) : OnTrunk(e.locations[i])

\* C5: an observation whose port is no integer is always among the locations
\* of its MAC, and a switch is never leaking on the strength of such
\* observations: every leaking switch has a sighting on one of its trunk ports.
C5_NonNumericRetained ==
    Detected =>
        /\ \A e \in Entries : \A i \in 1..Len(e.locations) :
              ~StrIsInt(e.locations[i][2]) =>
                  \E j \in 1..Len(LocationsOf(e.mac)) : LocationsOf(e.mac)[j] = e.locations[i]
        /\ \A S \in leaking_switches :
              \E e \in Entries : \E i \in 1..Len(e.locations) :
                  e.locations[i][1] = S /\ OnTrunk(e.locations[i])
        /\ \A e \in Entries :
              (\A i \in 1..Len(e.locations) : ~StrIsInt(e.locations[i][2])) =>
                  /\ LocationsOf(e.mac) = e.locations
                  /\ leaking_switches = ResultWithout(e.mac).leaking_switches

\* a Po1 sighting in another VLAN than a trunk sighting of the same MAC on the
\* same switch: the switch leaks, the Po1 sighting is kept
C5_Witness ==
    /\ Detected
    /\ \E e \in Entries : \E i, j \in 1..Len(e.locations) :
          /\ ~StrIsInt(e.locations[i][2])
          /\ OnTrunk(e.locations[j])
          /\ e.locations[i][1] = e.locations[j][1]
          /\ e.locations[i][3] # e.locations[j][3]
          /\ e.locations[i][1] \in leaking_switches
          /\ \E k \in 1..Len(LocationsOf(e.mac)) : LocationsOf(e.mac)[k] = e.locations[i]

(***************************************************************************)
(* The entries of device_locations.                                        *)
(***************************************************************************)
\* the observations of an entry the detector retains
Retained(e) == IF Len(e.locations) = 1 THEN e.locations ELSE NonTrunk(e.locations)

\* every observation of the entry was discarded as trunk traffic
AllDiscarded(e) == Len(e.locations) >= 1 /\ Retained(e) = <<>>

\* the example of the claim: seen only at both ends of a declared link, in one VLAN
BothEndsExample(e) ==
    /\ Len(e.locations) = 2
    /\ e.locations[1][3] = e.locations[2][3]
    /\ StrIsInt(e.locations[1][2]) /\ StrIsInt(e.locations[2][2])
    /\ <<e.locations[1][1], StrToInt(e.locations[1][2])>> \in DOMAIN switch_connections
    /\ switch_connections[<<e.locations[1][1], StrToInt(e.locations[1][2])>>]
           = <<e.locations[2][1], StrToInt(e.locations[2][2])>>

\* C9: device_locations has an entry for a MAC exactly when one of its
\* observations was retained, no entry is empty, and a MAC seen only at both
\* ends of a declared link in one VLAN has none.
C9_EntryIffRetained ==
    Detected =>
        /\ DOMAIN device_locations = {e.mac : e \in {x \in Entries : Retained(x) # <<>>}}
        /\ \A mac \in DOMAIN device_locations : Len(device_locations[mac]) > 0
        /\ \A e \in Entries : BothEndsExample(e) => e.mac \notin DOMAIN device_locations

\* one MAC seen at both ends of a link and so without entry, next to a MAC
\* that has one
C9_Witness ==
    /\ Detected
    /\ \E e \in Entries : BothEndsExample(e) /\ e.mac \notin DOMAIN device_locations
    /\ DOMAIN device_locations # {}

\* C10: when every observation of a MAC is discarded as trunk traffic, what
\* detect returns differs from what it returns when the MAC was never
\* observed: the MAC is reported among the keys of device_locations, or the
\* returned pair is another one.
C10_AllDiscardedReported ==
    Detected =>
        \A e \in Entries :
            AllDiscarded(e) =>
                \/ e.mac \in DOMAIN device_locations
                \/ [leaking_switches |-> leaking_switches, device_locations |-> device_locations]
                       # ResultWithout(e.mac)

(***************************************************************************)
(* The connection index.                                                   *)
(***************************************************************************)
\* the link has its four fields and ports that int() turns into integers
ValidLink(link) ==
    /\ LinkKeys \subseteq DOMAIN link
    /\ \A k \in {"source_port", "destination_port"} :
          link[k].t = "int" \/ (link[k].t = "str" /\ StrIsInt(link[k].s))

SourceEnd(link) == <<link["source"], IntOf(link["source_port"])>>

DestEnd(link) == <<link["destination"], IntOf(link["destination_port"])>>

Ends(link) == {SourceEnd(link), DestEnd(link)}

ValidIndices == {i \in 1..Len(links) : ValidLink(links[i])}

Lookup(end) == switch_connections[end]

\* a later valid link names one of the ends of link i
NamedLater(i) == \E j \in ValidIndices : j > i /\ Ends(links[j]) \cap Ends(links[i]) # {}

\* the other end of a valid link that names the end
OtherEnd(link, end) == IF end = SourceEnd(link) THEN DestEnd(link) ELSE SourceEnd(link)

\* C6, as claimed: for every valid link (A,p)-(B,q) of the list, lookup(A,p)
\* is (B,q) and lookup(B,q) is (A,p), also when links share an end.
C6_EveryLinkLookup ==
    Loaded =>
        \A i \in ValidIndices :
            /\ Ends(links[i]) \subseteq DOMAIN switch_connections
            /\ Lookup(SourceEnd(links[i])) = DestEnd(links[i])
            /\ Lookup(DestEnd(links[i])) = SourceEnd(links[i])

\* C6, amended: both ends of every valid link are keys of the index, the
\* lookup of an end gives the other end of the last valid link that names it,
\* and so lookup(A,p) is (B,q) and lookup(B,q) is (A,p) for every valid link
\* none of whose ends a later valid link names.
C6_LastLinkLookup ==
    Loaded =>
        \A i \in ValidIndices :
            /\ Ends(links[i]) \subseteq DOMAIN switch_connections
            /\ \A end \in Ends(links[i]) :
                  (\A j \in ValidIndices : j > i => end \notin Ends(links[j]))
                      => Lookup(end) = OtherEnd(links[i], end)
            /\ ~NamedLater(i) =>
                  /\ Lookup(SourceEnd(links[i])) = DestEnd(links[i])
                  /\ Lookup(DestEnd(links[i])) = SourceEnd(links[i])

\* two valid links share an end and differ in its other end; the index holds
\* the later one
C6_Witness ==
    /\ Loaded
    /\ \E i, j \in ValidIndices :
          /\ i < j
          /\ SourceEnd(links[i]) = SourceEnd(links[j])
          /\ DestEnd(links[i]) # DestEnd(links[j])
          /\ Lookup(SourceEnd(links[j])) = DestEnd(links[j])
          /\ Lookup(DestEnd(links[j])) = SourceEnd(links[j])

\* C7: the index is symmetric: when it maps (A,p) to (B,q), it maps (B,q) to (A,p).
C7_Symmetric ==
    Loaded =>
        \A end \in DOMAIN switch_connections :
            /\ Lookup(end) \in DOMAIN switch_connections
            /\ Lookup(Lookup(end)) = end

\* C8: building the index never aborts on a malformed link; a malformed link
\* adds no entry, and both ends of every well-formed link before and after it
\* are keys of the index.
C8_MalformedSkipped ==
    /\ pc # "aborted"
    /\ Loaded =>
          DOMAIN switch_connections = UNION {Ends(links[i]) : i \in ValidIndices}

(***************************************************************************)
(* detect as a function of its arguments.                                  *)
(***************************************************************************)
\* no MAC of the mapping has an observation
NoObservations == \A e \in Entries : Len(e.locations) = 0

\* what detect has returned
Returned == [leaking_switches |-> leaking_switches, device_locations |-> device_locations]

\* C11: on a mapping without MACs, or whose MACs all have an empty list,
\* detect returns an empty device_locations and an empty leaking_switches,
\* whatever the connection index holds.
C11_NoObservationsEmptyResult ==
    (Detected /\ NoObservations) =>
        /\ device_locations = EmptyDict
        /\ leaking_switches = {}

C11_Witness ==
    /\ Detected
    /\ Len(mac_tables) = 2
    /\ NoObservations
    /\ DOMAIN switch_connections # {}
    /\ Returned = [leaking_switches |-> {}, device_locations |-> EmptyDict]

\* what detect returns for the mapping of one entry alone
Alone(e) == detect_vlan_leaks_and_identify_devices(<<e>>, switch_connections)

\* the locations a result holds for a MAC
LocationsIn(dl, mac) == IF mac \in DOMAIN dl THEN dl[mac] ELSE <<>>

\* the entries in the opposite order
Reversed(tables) == [i \in 1..Len(tables) |-> tables[Len(tables) + 1 - i]]

\* C12: the locations of a MAC are those detect returns for that MAC alone,
\* the keys of device_locations and the switches of leaking_switches are the
\* unions over the MACs taken alone, and the entries processed in the
\* opposite order give the same two results.
C12_PerMacIndependent ==
    Detected =>
        LET alone == [i \in 1..Len(mac_tables) |-> Alone(mac_tables[i])]
        IN  /\ \A i \in 1..Len(mac_tables) :
                  LocationsOf(mac_tables[i].mac)
                      = LocationsIn(alone[i].device_locations, mac_tables[i].mac)
            /\ DOMAIN device_locations
                  = UNION {DOMAIN alone[i].device_locations : i \in 1..Len(mac_tables)}
            /\ leaking_switches
                  = UNION {alone[i].leaking_switches : i \in 1..Len(mac_tables)}
            /\ detect_vlan_leaks_and_identify_devices(Reversed(mac_tables), switch_connections)
                  = Returned

\* the first MAC marks a switch and keeps a location, the second keeps one
C12_Witness ==
    /\ Detected
    /\ Len(mac_tables) = 2
    /\ \E S \in Switches : MarksLeak(mac_tables[1], S)
    /\ leaking_switches # {}
    /\ Len(mac_tables[2].locations) = 1
    /\ DOMAIN device_locations = {mac_tables[1].mac, mac_tables[2].mac}

\* the second call has returned
DetectedAgain == pc = "again"

C18_InlineLoopEquivalent ==
    Detected =>
        LET r == new_test_detect(mac_tables, switch_connections)
        IN  /\ r.leaking_switches = leaking_switches
            /\ DOMAIN r.device_locations = DOMAIN device_locations
            /\ \A mac \in DOMAIN device_locations :
                  r.device_locations[mac] = device_locations[mac]

\* both loops marked a switch, kept a location and dropped a trunk sighting
C18_Witness ==
    /\ Detected
    /\ leaking_switches # {}
    /\ device_locations # EmptyDict
    /\ \E e \in Entries : Len(e.locations) = 3 /\ Len(LocationsOf(e.mac)) = 1
    /\ new_test_detect(mac_tables, switch_connections) = Returned

(***************************************************************************)
(* main and its stages.                                                    *)
(***************************************************************************)
\* main is over
Ended == pc \in {"main_returned", "main_raised"}

\* the topology file is absent, empty or unparseable
UnusableTopology == topology_file # "ok"

IsPrefix(s, t) == Len(s) <= Len(t) /\ \A i \in 1..Len(s) : s[i] = t[i]

NothingDetected == leaking_switches = {} /\ device_locations = EmptyDict

\* C15 as claimed: with an unusable topology main still goes through its
\* five stages in order, detection among them, and ends with an empty
\* device_locations and an empty leaking_switches.
C15_DetectionStillRuns ==
    (Ended /\ UnusableTopology) => (stages = MainStages /\ NothingDetected)

\* C15: the stages run in the order load, parse, detect, build graph,
\* visualize; an unusable topology ends main after the load stage, before
\* any MAC table is parsed or detection is called; with a usable topology
\* main goes through all five stages, and a missing MAC-table directory then
\* stops the parse stage only: detection runs on no observations and
\* returns two empty results.
C15_UnusableTopologyEndsMain ==
    /\ IsPrefix(stages, MainStages)
    /\ (UnusableTopology /\ pc # "main_load") =>
          /\ pc = "main_returned"
          /\ stages = <<"load_topology">>
          /\ mac_tables = <<>>
          /\ NothingDetected
          /\ G = EmptyGraph
    /\ (~UnusableTopology /\ pc = "main_returned") => stages = MainStages
    /\ (~UnusableTopology /\ ~mac_dir.isdir /\ Len(stages) >= 3) =>
          /\ mac_tables = <<>>
          /\ NothingDetected

\* main ended after the load stage, the lines of the directory unread
C15_Witness ==
    /\ Ended
    /\ UnusableTopology
    /\ stages = <<"load_topology">>
    /\ mac_dir.isdir
    /\ \E i \in 1..Len(mac_dir.lines) : mac_dir.lines[i].kind = "entry"
    /\ mac_tables = <<>>

(***************************************************************************)
(* The graph of the retained locations.                                    *)
(***************************************************************************)
\* build_network_graph has returned
GraphBuilt == pc \in {"main_show", "main_returned"} /\ Len(stages) >= 4

\* the names of the switches the topology declares
DeclaredNames == {declared.list[i] : i \in 1..Len(declared.list)} \ {""}

\* the switch is a node: declared by name, or an end of a link of the index
IsSwitchNode(S) ==
    \/ S \in DeclaredNames
    \/ \E key \in DOMAIN switch_connections : key[1] = S

\* the retained locations of a MAC
RetainedOf(mac) == {device_locations[mac][j] : j \in 1..Len(device_locations[mac])}

\* each declared switch is a switch node, red exactly when it leaks
DeclaredColoured ==
    \A S \in DeclaredNames :
        /\ has_node(G, S)
        /\ G.nodes[S].type = "switch"
        /\ G.nodes[S].color = "red" <=> S \in leaking_switches

\* C17 as claimed: every retained location has its device node and its
\* edge to the switch, and the declared switches are red exactly when leaking.
C17_EveryLocationRendered ==
    GraphBuilt =>
        /\ \A mac \in DOMAIN device_locations : \A loc \in RetainedOf(mac) :
              /\ has_node(G, mac)
              /\ G.nodes[mac].type = "device"
              /\ {loc[1], mac} \in G.edges
        /\ DeclaredColoured

\* C17: when the topology has a 'switches' entry, a MAC of device_locations
\* has a device node exactly when one of its locations is on no link port of
\* the index, and an edge to a switch exactly when such a location is on that
\* switch and the switch is a node (declared by name or an end of a link); a
\* location on a link port is not drawn; each declared switch is a switch
\* node, red exactly when it is in leaking_switches.  Without a 'switches'
\* entry the graph is empty.
C17_OffTrunkLocationsRendered ==
    GraphBuilt =>
        IF ~declared.present THEN G = EmptyGraph
        ELSE /\ \A mac \in DOMAIN device_locations :
                   /\ has_node(G, mac) <=> \E loc \in RetainedOf(mac) : ~OnTrunk(loc)
                   /\ has_node(G, mac) => G.nodes[mac].type = "device"
                   /\ \A S \in Switches :
                         {S, mac} \in G.edges
                             <=> /\ IsSwitchNode(S)
                                 /\ \E loc \in RetainedOf(mac) : loc[1] = S /\ ~OnTrunk(loc)
             /\ DeclaredColoured

\* one MAC retained on a link port and not drawn, another drawn with its edge
C17_Witness ==
    /\ GraphBuilt
    /\ declared.present
    /\ \E mac \in DOMAIN device_locations :
          /\ \A loc \in RetainedOf(mac) : OnTrunk(loc)
          /\ ~has_node(G, mac)
    /\ \E mac \in DOMAIN device_locations : \E S \in Switches :
          has_node(G, mac) /\ {S, mac} \in G.edges

(***************************************************************************)
(* The script vlan_visualizer.py, lines 168-202.                           *)
(***************************************************************************)
\* the tables of two switches, under a topology with or without their link
InitVisualizer ==
    /\ pc = "vis_build"
    /\ topology \in VisTopologies
    /\ \E t1 \in VisSwitchTables("SW1"), t2 \in VisSwitchTables("SW2") :
          switch_mac_tables = <<t1, t2>>
    /\ network_graph = EmptyGraph
    /\ vlan_leaks = EmptyDict
    /\ topology_file = "ok"
    /\ links = <<>>
    /\ switch_connections = EmptyDict
    /\ mac_tables = <<>>
    /\ leaking_switches = {}
    /\ device_locations = EmptyDict
    /\ first_run = [leaking_switches |-> {}, device_locations |-> EmptyDict]
    /\ mac_dir = [isdir |-> FALSE, lines |-> <<>>]
    /\ declared = [present |-> FALSE, list |-> <<>>]
    /\ stages = <<>>
    /\ G = EmptyGraph
    /\ figure_shown = FALSE

mainVars == <<topology_file, links, switch_connections, mac_tables, leaking_switches,
              device_locations, first_run, mac_dir, declared, stages, G, figure_shown>>

\* line 199
VisBuildGraph ==
    /\ pc = "vis_build"
    /\ network_graph' = vis_build_network_graph(topology, switch_mac_tables)
    /\ pc' = "vis_detect"
    /\ UNCHANGED <<topology, switch_mac_tables, vlan_leaks, mainVars>>

\* line 200
VisDetectLeaks ==
    /\ pc = "vis_detect"
    /\ vlan_leaks' = detect_vlan_leaks(network_graph)
    /\ pc' = "vis_done"
    /\ UNCHANGED <<topology, switch_mac_tables, network_graph, mainVars>>

NextVisualizer == VisBuildGraph \/ VisDetectLeaks

SpecVisualizer == InitVisualizer /\ [][NextVisualizer]_vars

\* the entries of the tables of the switches that have one
TableEntries ==
    UNION {{switch_mac_tables[i].table[j] : j \in 1..Len(switch_mac_tables[i].table)} :
              i \in {x \in 1..Len(switch_mac_tables) : ~switch_mac_tables[x].none}}

\* the VLANs a MAC is seen in over the tables of the switches
VlansSeen(mac) == {e.vlan : e \in {x \in TableEntries : x.mac = mac}}

\* C16: detect_vlan_leaks on the graph built from the tables returns a
\* mapping whose keys are the MACs seen with more than one VLAN over the
\* tables, each with all the VLANs it was seen in.
C16_LeaksAreMultiVlanMacs ==
    pc = "vis_done" =>
        /\ DOMAIN vlan_leaks = {mac \in Macs : Cardinality(VlansSeen(mac)) > 1}
        /\ \A mac \in DOMAIN vlan_leaks : vlan_leaks[mac] = VlansSeen(mac)

====
